---- MODULE Spec2Model ----
(***************************************************************************)
(* ClusterProbe: coordination sanity check around Xenon atoms.             *)
(*                                                                         *)
(*   cluster_sanity_check.py         directory mode (optional quarantine)  *)
(*   cluster_sanity_check_no-nmr.py  trajectory mode (analysis only)       *)
(*                                                                         *)
(* Conventions of the model                                                *)
(*   - a structure (ase.Atoms) is a sequence of [symbol, pos] records, pos *)
(*     a triple of integers; Python index i is position i+1 of the         *)
(*     sequence, and every index the code reports is given 0-based;        *)
(*   - np.linalg.norm(pos - xe_pos) <= rcut is decided on the squares      *)
(*     (the norm is never negative, so a negative rcut admits nothing);    *)
(*   - Python's None is <<>> and a string s in an optional field is <<s>>. *)
(***************************************************************************)
EXTENDS Integers, Sequences, FiniteSets

\* ------------------------------------------------------------------ bounds
\* Longest structure (atoms per structure) drawn for the analysis functions.
MaxAtoms == 3
\* Longest list of discovered coordinate files / trajectory frames of a run.
MaxFiles == 3

\* ------------------------------------------------------------ input domains
Symbols == {"Xe", "O"}
\* Coordinates: a coincident pair is two atoms on the same point; the
\* distances between distinct points are 1, 2 and sqrt(5), so the integer
\* radii hit two of them exactly and miss the third.
Points == {<<0, 0, 0>>, <<1, 0, 0>>, <<0, -2, 0>>}
AtomRecs == [symbol : Symbols, pos : Points]
RECURSIVE SeqsUpTo(_, _)
SeqsUpTo(S, n) ==
  IF n = 0 THEN {<<>>}
  ELSE LET shorter == SeqsUpTo(S, n - 1)
       IN  shorter \cup {Append(s, x) : s \in {t \in shorter : Len(t) = n - 1}, x \in S}
Structures == SeqsUpTo(AtomRecs, MaxAtoms)
\* --rcut values (Angstrom) and --num_atoms values tried.
Radii == {-1, 0, 1, 2}
MinNeighborChoices == 0 .. MaxAtoms
\* str(e) of the exceptions a load or a computation raises; an exception
\* built without arguments (StopIteration on an empty file) prints as "".
ErrMsgs == {"", "No such file or directory"}

None == <<>>
Some(s) == <<s>>
\* What reading / touching a structure does: it yields atoms or it raises.
Loaded(atoms) == [kind |-> "atoms", atoms |-> atoms, msg |-> ""]
Raises(msg) == [kind |-> "raise", atoms |-> <<>>, msg |-> msg]
LoadOutcomes == {Loaded(s) : s \in Structures} \cup {Raises(m) : m \in ErrMsgs}

\* ------------------------------------------------------- neighbor analysis
Sq(x) == x * x
Dist2(p, q) == Sq(p[1] - q[1]) + Sq(p[2] - q[2]) + Sq(p[3] - q[3])

\* dist = np.linalg.norm(pos - xe_pos); dist <= rcut
\* Faulty variants: squares compared without the sign of rcut; strict <.
WithinCutOnSquares(p, q, rcut) == Dist2(p, q) <= Sq(rcut)
WithinCutStrict(p, q, rcut) == rcut >= 0 /\ Dist2(p, q) < Sq(rcut)
WithinCut(p, q, rcut) == rcut >= 0 /\ Dist2(p, q) <= Sq(rcut)

\* [i for i, symbol in enumerate(atoms.get_chemical_symbols()) if symbol == 'Xe']
\* (positions of the sequence, i.e. Python index + 1)
RECURSIVE XeScan(_, _)
XeScan(atoms, i) ==
  IF i > Len(atoms) THEN <<>>
  ELSE (IF atoms[i].symbol = "Xe" THEN <<i>> ELSE <<>>) \o XeScan(atoms, i + 1)
xe_indices(atoms) == XeScan(atoms, 1)

\* The inner loop over enumerate(atoms.positions) for one Xe atom: the
\* positions appended to neighbor_indices, from position i on.
RECURSIVE NeighborScan(_, _, _, _)
NeighborScan(atoms, xe_idx, rcut, i) ==
  IF i > Len(atoms) THEN <<>>
  ELSE (IF i # xe_idx /\ WithinCut(atoms[i].pos, atoms[xe_idx].pos, rcut)
        THEN <<i>> ELSE <<>>)
       \o NeighborScan(atoms, xe_idx, rcut, i + 1)
neighbor_indices(atoms, xe_idx, rcut) == NeighborScan(atoms, xe_idx, rcut, 1)

\* xe_info of one Xe atom (indices as the code reports them, 0-based);
\* neighbor_count = len(distances), one distance per neighbor index.
xe_info(atoms, xe_idx, rcut) ==
  LET nb == neighbor_indices(atoms, xe_idx, rcut)
  IN  [xe_index |-> xe_idx - 1,
       neighbor_count |-> Len(nb),
       neighbor_indices |-> [k \in 1 .. Len(nb) |-> nb[k] - 1]]

xe_detailed_info(atoms, rcut) ==
  LET xs == xe_indices(atoms)
  IN  [k \in 1 .. Len(xs) |-> xe_info(atoms, xs[k], rcut)]

xe_neighbor_counts(atoms, rcut) ==
  LET info == xe_detailed_info(atoms, rcut)
  IN  [k \in 1 .. Len(info) |-> info[k].neighbor_count]

\* any(count < min_neighbors for count in xe_neighbor_counts)
\* Faulty variant: <= in place of <.
AnyAtMost(counts, min_neighbors) ==
  \E k \in 1 .. Len(counts) : counts[k] <= min_neighbors
is_anomalous(counts, min_neighbors) ==
  \E k \in 1 .. Len(counts) : counts[k] < min_neighbors

\* The three result dictionaries of analyze_cluster / analyze_snapshot; id
\* is the 'file' path or the 'snapshot' index.
\* Faulty variant: no early return, the empty count list reported as a success.
NoXeAsSuccess(id, atoms) ==
  [id |-> id, success |-> TRUE, error |-> None,
   n_atoms |-> Len(atoms), n_xe |-> 0, xe_neighbors |-> <<>>,
   xe_detailed_info |-> <<>>, is_anomalous |-> FALSE]
NoXeResult(id, atoms) ==
  [id |-> id, success |-> FALSE, error |-> Some("No Xenon atoms found"),
   n_atoms |-> Len(atoms), n_xe |-> 0, xe_neighbors |-> <<>>,
   xe_detailed_info |-> <<>>, is_anomalous |-> TRUE]
SuccessResult(id, atoms, rcut, min_neighbors) ==
  [id |-> id, success |-> TRUE, error |-> None,
   n_atoms |-> Len(atoms), n_xe |-> Len(xe_indices(atoms)),
   xe_neighbors |-> xe_neighbor_counts(atoms, rcut),
   xe_detailed_info |-> xe_detailed_info(atoms, rcut),
   is_anomalous |-> is_anomalous(xe_neighbor_counts(atoms, rcut), min_neighbors)]
ExceptResult(id, msg) ==
  [id |-> id, success |-> FALSE, error |-> Some(msg),
   n_atoms |-> 0, n_xe |-> 0, xe_neighbors |-> <<>>,
   xe_detailed_info |-> <<>>, is_anomalous |-> TRUE]

\* analyze_cluster(xyz_file, rcut, min_neighbors); load is what read(xyz_file)
\* does.
analyze_cluster(xyz_file, load, rcut, min_neighbors) ==
  IF load.kind = "raise" THEN ExceptResult(xyz_file, load.msg)
  ELSE IF Len(xe_indices(load.atoms)) = 0 THEN NoXeResult(xyz_file, load.atoms)
  ELSE SuccessResult(xyz_file, load.atoms, rcut, min_neighbors)

\* analyze_snapshot(atoms, snapshot_idx, rcut, min_neighbors); touch is what
\* using the atoms object does (an object that raises takes the except arm).
analyze_snapshot(touch, snapshot_idx, rcut, min_neighbors) ==
  IF touch.kind = "raise" THEN ExceptResult(snapshot_idx, touch.msg)
  ELSE IF Len(xe_indices(touch.atoms)) = 0 THEN NoXeResult(snapshot_idx, touch.atoms)
  ELSE SuccessResult(snapshot_idx, touch.atoms, rcut, min_neighbors)

\* ------------------------------------------------------------ file system
\* Cluster folders cluster_<d> of the base directory, and the coordinate
\* files of a folder that match coord_*ClusterAroundXeNew.xyz.
ClusterDirs == {1, 2}
CoordNames == {1, 2}
CoordFiles == [dir : ClusterDirs, coord : CoordNames]

\* A directory tree is absent or has contents; contents are told apart by
\* the folder they were created in and by what they are: the cluster's own
\* tree ("src"), a tree left in bad_seeds by an earlier run ("old"), or
\* what an interrupted rmtree / copytree leaves of either ("part").
Absent == <<>>
Tree(d, what) == <<d, what>>
AllAbsent == [d \in ClusterDirs |-> Absent]

\* What can go wrong in the operating system during one call of
\* move_anomalous_cluster; a fault only matters if its step is reached.
\* shutil.move renames, and when os.rename fails on a source it can still
\* read it copies the tree and then removes the source; that removal can fail
\* before it has deleted anything (a source that may be read, not changed)
\* or part-way.
MoveFaults ==
  {"none", "makedirs", "rmtree_start", "rmtree_midway",
   "rename", "copy_midway", "cleanup_start", "cleanup_midway"}

\* os.path.dirname(cluster_file), os.path.basename(cluster_dir)
cluster_dir(cluster_file) == cluster_file.dir

\* move_anomalous_cluster(cluster_file, bad_seeds_dir) on file system f under
\* fault; returns the (success, message) pair with the file system it leaves.
\* Everything from os.makedirs on is inside try/except Exception.
MoveReturn(f, ok, msg) == [fs |-> f, success |-> ok, message |-> msg]
\* Faulty variant: no rmtree of an existing destination (the trees merge).
MoveMerging(f, cluster_file, fault) ==
  LET d == cluster_dir(cluster_file)
  IN  IF fault = "makedirs" \/ f.clusters[d] = Absent
      THEN MoveReturn(f, FALSE, <<"Failed to move", d>>)
      ELSE MoveReturn([clusters |-> [f.clusters EXCEPT ![d] = Absent],
                       bad_seeds_dir |-> TRUE,
                       bad_seeds |-> [f.bad_seeds EXCEPT ![d] =
                          IF @ = Absent THEN f.clusters[d] ELSE Tree(d, "part")]],
                      TRUE, <<"Moved", d>>)
move_anomalous_cluster(f, cluster_file, fault) ==
  LET d == cluster_dir(cluster_file)
      failed == <<"Failed to move", d>>
      \* os.makedirs(bad_seeds_dir, exist_ok=True)
      f1 == [f EXCEPT !.bad_seeds_dir = TRUE]
      \* shutil.rmtree(target_path)
      f2 == [f1 EXCEPT !.bad_seeds[d] = Absent]
      f2part == [f1 EXCEPT !.bad_seeds[d] = Tree(d, "part")]
      \* shutil.move(source_path, target_path)
      f3 == [f2 EXCEPT !.bad_seeds[d] = f2.clusters[d], !.clusters[d] = Absent]
      f3copy == [f2 EXCEPT !.bad_seeds[d] = Tree(d, "part")]
      f3copied == [f2 EXCEPT !.bad_seeds[d] = f2.clusters[d]]
      f3clean == [f2 EXCEPT !.bad_seeds[d] = f2.clusters[d],
                            !.clusters[d] = Tree(d, "part")]
  IN  IF fault = "makedirs" THEN MoveReturn(f, FALSE, failed)
      ELSE IF f1.bad_seeds[d] # Absent /\ fault = "rmtree_start"
        THEN MoveReturn(f1, FALSE, failed)
      ELSE IF f1.bad_seeds[d] # Absent /\ fault = "rmtree_midway"
        THEN MoveReturn(f2part, FALSE, failed)
      ELSE IF f2.clusters[d] = Absent \/ fault = "rename"
        THEN MoveReturn(f2, FALSE, failed)
      ELSE IF fault = "copy_midway" THEN MoveReturn(f3copy, FALSE, failed)
      ELSE IF fault = "cleanup_start" THEN MoveReturn(f3copied, FALSE, failed)
      ELSE IF fault = "cleanup_midway" THEN MoveReturn(f3clean, FALSE, failed)
      ELSE MoveReturn(f3, TRUE, <<"Moved", d>>)

\* ------------------------------------------------------------------ report
\* Python's f"{100*k/n:.1f}" in tenths of a percent. 100*k is an exact
\* integer, 100*k/n is that quotient rounded to the nearest binary64 value,
\* and :.1f rounds the exact value of that double to the nearest tenth, ties
\* to even.
\*
\* DivisionScale and DivisionBits are the long division a / b in binary: the
\* pair is first scaled so that b <= a < 2b (the leading bit of the quotient),
\* then 53 bits of the significand are produced and the remainder tells which
\* way the division rounded: "exact", "up" or "down" (ties to even).
RECURSIVE DivisionScale(_, _)
DivisionScale(a, b) ==
  IF a < b THEN DivisionScale(2 * a, b)
  ELSE IF a >= 2 * b THEN DivisionScale(a, 2 * b)
  ELSE <<a, b>>
RECURSIVE DivisionBits(_, _, _, _)
DivisionBits(r, b, bits, last) ==
  IF bits = 53
  THEN IF r = 0 THEN "exact"
       ELSE IF 2 * r > b THEN "up"
       ELSE IF 2 * r < b THEN "down"
       ELSE IF last = 1 THEN "up" ELSE "down"
  ELSE IF 2 * r >= b THEN DivisionBits(2 * r - b, b, bits + 1, 1)
       ELSE DivisionBits(2 * r, b, bits + 1, 0)
DivisionRounding(a, b) ==
  LET ab == DivisionScale(a, b)
  IN  DivisionBits(ab[1] - ab[2], ab[2], 1, 1)

\* Off a decimal tie the double lies on the same side of the tie as the exact
\* quotient (its error is far smaller than the distance 1/(2n) to the tie);
\* on a decimal tie the double decides: above it, below it, or exactly on it.
PctTenths(k, n) ==
  LET q == (1000 * k) \div n
      r == (1000 * k) % n
  IN  IF 2 * r > n THEN q + 1
      ELSE IF 2 * r < n THEN q
      ELSE LET way == DivisionRounding(100 * k, n)
           IN  IF way = "up" THEN q + 1
               ELSE IF way = "down" THEN q
               ELSE IF q % 2 = 0 THEN q ELSE q + 1

RECURSIVE Flatten(_)
Flatten(ss) == IF ss = <<>> THEN <<>> ELSE Head(ss) \o Flatten(Tail(ss))
SeqMin(s) == CHOOSE x \in {s[i] : i \in 1 .. Len(s)} : \A i \in 1 .. Len(s) : x <= s[i]
SeqMax(s) == CHOOSE x \in {s[i] : i \in 1 .. Len(s)} : \A i \in 1 .. Len(s) : x >= s[i]
IsSuccess(r) == r.success
IsAnomalous(r) == r.is_anomalous

\* anomalous_results = [r for r in good_results if r['is_anomalous']]
\* Faulty variant: failed results counted as anomalous.
ReportAnomalousOfAll(rs, good_results) == SelectSeq(rs, IsAnomalous)
ReportAnomalous(rs, good_results) == SelectSeq(good_results, IsAnomalous)

\* print_summary_statistics(results, rcut, min_neighbors): the numbers it
\* prints. The sections after "No successful analyses to report." are None
\* when the function returns there.
print_summary_statistics(rs) ==
  LET total == Len(rs)
      good_results == SelectSeq(rs, IsSuccess)
      successful == Len(good_results)
      failed == total - successful
      failed_lines == [k \in 1 .. Len(SelectSeq(rs, LAMBDA r : ~r.success)) |->
                        LET r == SelectSeq(rs, LAMBDA x : ~x.success)[k]
                        IN  [id |-> r.id, error |-> r.error]]
      all_neighbor_counts ==
        Flatten([k \in 1 .. successful |-> good_results[k].xe_neighbors])
      anomalous == ReportAnomalous(rs, good_results)
      good_clusters == successful - Len(anomalous)
  IN  [total |-> total, successful |-> successful, failed |-> failed,
       failed_lines |-> IF failed > 0 THEN failed_lines ELSE <<>>,
       coordination |->
         IF successful = 0 THEN None
         ELSE Some([n_xe |-> Len(all_neighbor_counts),
                    min |-> SeqMin(all_neighbor_counts),
                    max |-> SeqMax(all_neighbor_counts)]),
       quality |->
         IF successful = 0 THEN None
         ELSE Some([good |-> good_clusters,
                    good_pct |-> PctTenths(good_clusters, successful),
                    anomalous |-> Len(anomalous),
                    anomalous_pct |-> PctTenths(Len(anomalous), successful)]),
       details |->
         IF successful = 0 THEN <<>>
         ELSE [k \in 1 .. Len(anomalous) |->
                [id |-> anomalous[k].id, xe_neighbors |-> anomalous[k].xe_neighbors,
                 min |-> IF anomalous[k].xe_neighbors # <<>>
                         THEN SeqMin(anomalous[k].xe_neighbors) ELSE 0]]]

\* ------------------------------------------------------------------- state
VARIABLES
  call,               \* analysis function under test: its name and arguments
  ret,                \* None, or Some(the dictionary the call returned)
  args,               \* parse_arguments(): mode, rcut, num_atoms, sort_out_anomalies
  disk_files,         \* coordinate files matching the glob pattern
  fs0,                \* the directories as the run found them
  fs,                 \* the directories now: clusters, bad_seeds_dir, bad_seeds
  pc,                 \* position of main()
  cluster_files,      \* main's cluster_files (directory mode)
  trajectory,         \* main's trajectory (trajectory mode)
  results,            \* main's results
  report,             \* None, or Some(what print_summary_statistics printed)
  anomalous_results,  \* main's anomalous_results (quarantine phase)
  moved_count,        \* main's moved_count
  warnings,           \* the "Warning: ..." lines printed by the move loop
  events              \* every structure read and every move call, in order

vars ==
  <<call, ret, args, disk_files, fs0, fs, pc, cluster_files, trajectory,
    results, report, anomalous_results, moved_count, warnings, events>>

fn_vars == <<call, ret>>
run_vars ==
  <<args, disk_files, fs0, fs, pc, cluster_files, trajectory, results, report,
    anomalous_results, moved_count, warnings, events>>

\* --------------------------------------------- the analysis functions alone
NoCall == [fn |-> "none", input |-> Raises(""), rcut |-> 0, min_neighbors |-> 0]
IdleRun ==
  /\ args = [mode |-> "none", rcut |-> 0, num_atoms |-> 0, sort_out_anomalies |-> "no"]
  /\ disk_files = {}
  /\ fs0 = [clusters |-> AllAbsent, bad_seeds_dir |-> FALSE, bad_seeds |-> AllAbsent]
  /\ fs = fs0
  /\ pc = "idle"
  /\ cluster_files = <<>>
  /\ trajectory = <<>>
  /\ results = <<>>
  /\ report = None
  /\ anomalous_results = <<>>
  /\ moved_count = 0
  /\ warnings = <<>>
  /\ events = <<>>

InitAnalyze ==
  /\ call \in [fn : {"analyze_cluster", "analyze_snapshot"}, input : LoadOutcomes,
               rcut : Radii, min_neighbors : MinNeighborChoices]
  /\ ret = None
  /\ IdleRun

CallAnalyzeCluster ==
  /\ call.fn = "analyze_cluster"
  /\ ret = None
  /\ ret' = Some(analyze_cluster([dir |-> 1, coord |-> 1], call.input,
                                 call.rcut, call.min_neighbors))
  /\ UNCHANGED <<call, run_vars>>

CallAnalyzeSnapshot ==
  /\ call.fn = "analyze_snapshot"
  /\ ret = None
  /\ ret' = Some(analyze_snapshot(call.input, 0, call.rcut, call.min_neighbors))
  /\ UNCHANGED <<call, run_vars>>

NextAnalyze == CallAnalyzeCluster \/ CallAnalyzeSnapshot
SpecAnalyze == InitAnalyze /\ [][NextAnalyze]_vars

\* ------------------------------------------------------------- the two mains
\* Structures the coordinate files and frames of a run hold: Xe with one
\* neighbor at distance 1 and one at distance 2; Xe with one neighbor at
\* distance 1; no Xe at all.
XeWithTwo ==
  <<[symbol |-> "Xe", pos |-> <<0, 0, 0>>], [symbol |-> "O", pos |-> <<1, 0, 0>>],
    [symbol |-> "O", pos |-> <<0, -2, 0>>]>>
XeWithOne ==
  <<[symbol |-> "O", pos |-> <<1, 0, 0>>], [symbol |-> "Xe", pos |-> <<0, 0, 0>>]>>
NoXe == <<[symbol |-> "O", pos |-> <<0, 0, 0>>]>>
RunStructures == {XeWithTwo, XeWithOne, NoXe}
RunLoadOutcomes == {Loaded(s) : s \in RunStructures} \cup {Raises(m) : m \in ErrMsgs}
\* --rcut and --num_atoms of a run: at radius 2 the first structure has
\* exactly the minimum of 2 neighbors and the second has fewer.
RunRadii == {2}
RunMinNeighbors == {2}

\* glob.glob(pattern) then sort(key=extract_cluster_number): the files in
\* ascending cluster number, files of one folder in the order glob gave them.
find_cluster_files(files) ==
  {s \in [1 .. Cardinality(files) -> files] :
     /\ \A i, j \in 1 .. Cardinality(files) : i # j => s[i] # s[j]
     /\ \A i, j \in 1 .. Cardinality(files) : i < j => s[i].dir <= s[j].dir}

Init ==
  /\ call = NoCall
  /\ ret = None
  /\ args \in [mode : {"directory", "trajectory"}, rcut : RunRadii,
               num_atoms : RunMinNeighbors, sort_out_anomalies : {"yes", "no"}]
  /\ args.mode = "trajectory" => args.sort_out_anomalies = "no"
  /\ disk_files \in {F \in SUBSET CoordFiles : Cardinality(F) <= MaxFiles}
  /\ args.mode = "trajectory" => disk_files = {}
  /\ \E had_bad_seeds \in BOOLEAN, old \in SUBSET ClusterDirs :
       /\ ~had_bad_seeds => old = {}
       /\ fs0 = [clusters |-> [d \in ClusterDirs |->
                                 IF \E f \in disk_files : f.dir = d
                                 THEN Tree(d, "src") ELSE Absent],
                 bad_seeds_dir |-> had_bad_seeds,
                 bad_seeds |-> [d \in ClusterDirs |->
                                 IF d \in old THEN Tree(d, "old") ELSE Absent]]
  /\ args.mode = "trajectory" => ~fs0.bad_seeds_dir
  /\ fs = fs0
  /\ pc = "start"
  /\ cluster_files = <<>>
  /\ trajectory = <<>>
  /\ results = <<>>
  /\ report = None
  /\ anomalous_results = <<>>
  /\ moved_count = 0
  /\ warnings = <<>>
  /\ events = <<>>

ReadEvent(f, load) ==
  [op |-> "read", file |-> f, success |-> load.kind = "atoms", message |-> <<>>]
\* before: the directories as the call found them.
MoveEvent(f, r) ==
  [op |-> "move", file |-> f, success |-> r.success, message |-> r.message,
   before |-> fs]
IsMove(e) == e.op = "move"
IsRead(e) == e.op = "read"
MoveCalls == SelectSeq(events, IsMove)

\* What read(xyz_file) can do: a file whose folder is gone cannot be opened.
ReadOutcomes(f) ==
  IF fs.clusters[f.dir] = Absent THEN {Raises("No such file or directory")}
  ELSE RunLoadOutcomes

\* cluster_files = find_cluster_files(args.base_dir); sys.exit(1) when empty
FindClusterFiles ==
  /\ pc = "start"
  /\ args.mode = "directory"
  /\ \E s \in find_cluster_files(disk_files) :
       /\ cluster_files' = s
       /\ pc' = IF s = <<>> THEN "exit1" ELSE "analyze"
  /\ UNCHANGED <<fn_vars, args, disk_files, fs0, fs, trajectory, results, report,
                 anomalous_results, moved_count, warnings, events>>

\* One iteration of: for cluster_file in cluster_files:
\*     results.append(analyze_cluster(cluster_file, args.rcut, args.num_atoms))
\* Faulty variant: an anomalous cluster is moved as soon as it is analysed.
AnalyzeNextClusterMoveInline ==
  /\ pc = "analyze"
  /\ args.mode = "directory"
  /\ Len(results) < Len(cluster_files)
  /\ LET f == cluster_files[Len(results) + 1]
     IN  \E load \in ReadOutcomes(f), fault \in MoveFaults :
           LET r == analyze_cluster(f, load, args.rcut, args.num_atoms)
               m == move_anomalous_cluster(fs, f, fault)
               moving == args.sort_out_anomalies = "yes" /\ r.success /\ r.is_anomalous
           IN  /\ results' = Append(results, r)
               /\ fs' = IF moving THEN m.fs ELSE fs
               /\ events' = IF moving
                            THEN events \o <<ReadEvent(f, load), MoveEvent(f, m)>>
                            ELSE Append(events, ReadEvent(f, load))
               /\ pc' = IF Len(results') = Len(cluster_files) THEN "print" ELSE "analyze"
  /\ UNCHANGED <<fn_vars, args, disk_files, fs0, cluster_files, trajectory, report,
                 anomalous_results, moved_count, warnings>>
AnalyzeNextCluster ==
  /\ pc = "analyze"
  /\ args.mode = "directory"
  /\ Len(results) < Len(cluster_files)
  /\ LET f == cluster_files[Len(results) + 1]
     IN  \E load \in ReadOutcomes(f) :
           /\ results' = Append(results, analyze_cluster(f, load, args.rcut, args.num_atoms))
           /\ events' = Append(events, ReadEvent(f, load))
           /\ pc' = IF Len(results') = Len(cluster_files) THEN "print" ELSE "analyze"
  /\ UNCHANGED <<fn_vars, args, disk_files, fs0, fs, cluster_files, trajectory, report,
                 anomalous_results, moved_count, warnings>>

\* trajectory = read(args.xyz_file, index=':'); sys.exit(1) when it raises
ReadTrajectory ==
  /\ pc = "start"
  /\ args.mode = "trajectory"
  /\ \/ /\ pc' = "exit1"
        /\ UNCHANGED trajectory
     \/ \E t \in SeqsUpTo(RunStructures, MaxFiles) :
          /\ trajectory' = t
          /\ pc' = IF t = <<>> THEN "print" ELSE "analyze"
  /\ UNCHANGED <<fn_vars, args, disk_files, fs0, fs, cluster_files, results, report,
                 anomalous_results, moved_count, warnings, events>>

\* One iteration of: for idx, atoms in enumerate(trajectory):
\*     results.append(analyze_snapshot(atoms, idx, args.rcut, args.num_atoms))
AnalyzeNextSnapshot ==
  /\ pc = "analyze"
  /\ args.mode = "trajectory"
  /\ Len(results) < Len(trajectory)
  /\ results' = Append(results,
                       analyze_snapshot(Loaded(trajectory[Len(results) + 1]),
                                        Len(results), args.rcut, args.num_atoms))
  /\ pc' = IF Len(results') = Len(trajectory) THEN "print" ELSE "analyze"
  /\ UNCHANGED <<fn_vars, args, disk_files, fs0, fs, cluster_files, trajectory, report,
                 anomalous_results, moved_count, warnings, events>>

\* print_summary_statistics(results, args.rcut, args.num_atoms); trajectory
\* mode ends here.
PrintSummary ==
  /\ pc = "print"
  /\ report' = Some(print_summary_statistics(results))
  /\ pc' = IF args.mode = "directory" THEN "sort" ELSE "done"
  /\ UNCHANGED <<fn_vars, args, disk_files, fs0, fs, cluster_files, trajectory, results,
                 anomalous_results, moved_count, warnings, events>>

\* if args.sort_out_anomalies == "yes":
\* Faulty variant: the flag is not consulted.
SortOutAlways == TRUE
SortOutRequested == args.sort_out_anomalies = "yes"

\* [r for r in results if r['success'] and r['is_anomalous']]
Selected(r) == r.success /\ r.is_anomalous

\* The head of the quarantine block: the selection, and the branch on it.
SortOutAnomalies ==
  /\ pc = "sort"
  /\ IF SortOutRequested
     THEN /\ anomalous_results' = SelectSeq(results, Selected)
          /\ pc' = IF anomalous_results' # <<>> THEN "move" ELSE "done"
     ELSE /\ pc' = "done"
          /\ UNCHANGED anomalous_results
  /\ moved_count' = 0
  /\ UNCHANGED <<fn_vars, args, disk_files, fs0, fs, cluster_files, trajectory, results,
                 report, warnings, events>>

\* One iteration of: for result in anomalous_results:
\*     success, message = move_anomalous_cluster(result['file'], bad_seeds_dir)
\* Faulty variant: the loop ends at the first failed move.
MoveNextStopAtFailure ==
  /\ pc = "move"
  /\ Len(MoveCalls) < Len(anomalous_results)
  /\ LET f == anomalous_results[Len(MoveCalls) + 1].id
     IN  \E fault \in MoveFaults :
           LET r == move_anomalous_cluster(fs, f, fault)
           IN  /\ fs' = r.fs
               /\ events' = Append(events, MoveEvent(f, r))
               /\ moved_count' = IF r.success THEN moved_count + 1 ELSE moved_count
               /\ warnings' = IF r.success THEN warnings ELSE Append(warnings, r.message)
               /\ pc' = IF ~r.success \/ Len(MoveCalls) + 1 = Len(anomalous_results)
                        THEN "done" ELSE "move"
  /\ UNCHANGED <<fn_vars, args, disk_files, fs0, cluster_files, trajectory, results,
                 report, anomalous_results>>
MoveNext ==
  /\ pc = "move"
  /\ Len(MoveCalls) < Len(anomalous_results)
  /\ LET f == anomalous_results[Len(MoveCalls) + 1].id
     IN  \E fault \in MoveFaults :
           LET r == move_anomalous_cluster(fs, f, fault)
           IN  /\ fs' = r.fs
               /\ events' = Append(events, MoveEvent(f, r))
               /\ moved_count' = IF r.success THEN moved_count + 1 ELSE moved_count
               /\ warnings' = IF r.success THEN warnings ELSE Append(warnings, r.message)
               /\ pc' = IF Len(MoveCalls) + 1 = Len(anomalous_results)
                        THEN "done" ELSE "move"
  /\ UNCHANGED <<fn_vars, args, disk_files, fs0, cluster_files, trajectory, results,
                 report, anomalous_results>>

Next ==
  \/ FindClusterFiles
  \/ AnalyzeNextCluster
  \/ ReadTrajectory
  \/ AnalyzeNextSnapshot
  \/ PrintSummary
  \/ SortOutAnomalies
  \/ MoveNext

Spec == Init /\ [][Next]_vars

\* ================================================================== claims
\* Reference notions the claims are stated in, taken from the structure
\* itself and not from what the analysis returned.
XeSet(atoms) == {i \in 1 .. Len(atoms) : atoms[i].symbol = "Xe"}
NeighborSet(atoms, t, r) ==
  {j \in (1 .. Len(atoms)) \ {t} :
     r >= 0 /\ Dist2(atoms[j].pos, atoms[t].pos) <= r * r}
NeighborCount(atoms, t, r) == Cardinality(NeighborSet(atoms, t, r))
Range(s) == {s[i] : i \in 1 .. Len(s)}
Returned == ret[1]
\* The same call at another cutoff radius.
CallAt(r) ==
  IF call.fn = "analyze_cluster"
  THEN analyze_cluster([dir |-> 1, coord |-> 1], call.input, r, call.min_neighbors)
  ELSE analyze_snapshot(call.input, 0, r, call.min_neighbors)

\* C1: the returned is_anomalous is true iff the structure has no Xe atom,
\* or some Xe atom has fewer neighbors than the configured minimum, or the
\* load/computation raised; when every Xe count equals the minimum the
\* structure is not anomalous.
C1_AnomalousIff ==
  ret # None =>
    LET atoms == call.input.atoms
        raised == call.input.kind = "raise"
        below == \E t \in XeSet(atoms) :
                   NeighborCount(atoms, t, call.rcut) < call.min_neighbors
        all_equal == \A t \in XeSet(atoms) :
                       NeighborCount(atoms, t, call.rcut) = call.min_neighbors
    IN  /\ Returned.is_anomalous <=> (raised \/ XeSet(atoms) = {} \/ below)
        /\ (~raised /\ XeSet(atoms) # {} /\ all_equal) => ~Returned.is_anomalous

\* A call returned for a structure whose Xe atoms all have exactly the minimum
\* (at least one) neighbor.
C1_Witness ==
  /\ ret # None
  /\ call.input.kind = "atoms"
  /\ Cardinality(XeSet(call.input.atoms)) >= 2
  /\ call.min_neighbors >= 1
  /\ \A t \in XeSet(call.input.atoms) :
       NeighborCount(call.input.atoms, t, call.rcut) = call.min_neighbors
  /\ ~Returned.is_anomalous

\* C2: for every Xe atom t the reported neighbor count is the number of
\* indices j # t at Euclidean distance <= rcut of t (boundary included, self
\* excluded, a distinct atom on t's coordinates included), one count per Xe
\* atom in index order.
C2_NeighborCount ==
  (ret # None /\ Returned.success) =>
    LET atoms == call.input.atoms
        info == Returned.xe_detailed_info
    IN  /\ Len(Returned.xe_neighbors) = Cardinality(XeSet(atoms))
        /\ Len(info) = Len(Returned.xe_neighbors)
        /\ {info[k].xe_index + 1 : k \in 1 .. Len(info)} = XeSet(atoms)
        /\ \A k, l \in 1 .. Len(info) : k < l => info[k].xe_index < info[l].xe_index
        /\ \A k \in 1 .. Len(info) :
             LET t == info[k].xe_index + 1
             IN  /\ Returned.xe_neighbors[k] = NeighborCount(atoms, t, call.rcut)
                 /\ {j + 1 : j \in Range(info[k].neighbor_indices)}
                      = NeighborSet(atoms, t, call.rcut)
                 /\ info[k].xe_index \notin Range(info[k].neighbor_indices)

\* A returned count of 2 made of one atom exactly at distance rcut > 0 and
\* one distinct atom on the Xe atom's own coordinates.
C2_Witness ==
  /\ ret # None
  /\ Returned.success
  /\ call.rcut > 0
  /\ \E k \in 1 .. Len(Returned.xe_detailed_info) :
       LET atoms == call.input.atoms
           t == Returned.xe_detailed_info[k].xe_index + 1
       IN  /\ Returned.xe_neighbors[k] = 2
           /\ \E i, j \in (1 .. Len(atoms)) \ {t} :
                /\ Dist2(atoms[i].pos, atoms[t].pos) = Sq(call.rcut)
                /\ atoms[j].pos = atoms[t].pos

\* C3: for the same structure, against the same call at any other radius of
\* Radii: at a larger radius every Xe atom's neighbor set contains the one
\* returned and its count is no smaller; at a smaller radius the reverse.
C3_RadiusMonotone ==
  (ret # None /\ Returned.success) =>
    \A r \in Radii :
      LET other == CallAt(r)
          small == IF r <= call.rcut THEN other ELSE Returned
          large == IF r <= call.rcut THEN Returned ELSE other
      IN  /\ other.success
          /\ Len(other.xe_neighbors) = Len(Returned.xe_neighbors)
          /\ \A k \in 1 .. Len(Returned.xe_neighbors) :
               /\ Range(small.xe_detailed_info[k].neighbor_indices)
                    \subseteq Range(large.xe_detailed_info[k].neighbor_indices)
               /\ small.xe_neighbors[k] <= large.xe_neighbors[k]

\* A call at radius 1 returned a count that is strictly larger at radius 2
\* and strictly smaller at radius 0.
C3_Witness ==
  /\ ret # None
  /\ Returned.success
  /\ call.rcut = 1
  /\ \E k \in 1 .. Len(Returned.xe_neighbors) :
       /\ CallAt(0).xe_neighbors[k] < Returned.xe_neighbors[k]
       /\ Returned.xe_neighbors[k] < CallAt(2).xe_neighbors[k]

\* ----------------------------------------------------- claims about a run
Reads == SelectSeq(events, IsRead)
AnalysisOver == pc \in {"print", "sort", "move", "done"}
DirectoryRun == args.mode = "directory"
QuarantineRun == args.mode = "directory" /\ args.sort_out_anomalies = "yes"
HandedToMover(f) == \E k \in 1 .. Len(MoveCalls) : MoveCalls[k].file = f
\* Position of the result of coordinate file f in results.
ResultIndex(f) == CHOOSE i \in 1 .. Len(results) : results[i].id = f

\* C4: without --sort_out_anomalies yes (directory mode) and in trajectory
\* mode, move_anomalous_cluster is never called and every directory is as
\* the run found it, in every state.
C4_NoMoveWithoutOptIn ==
  (args.mode = "trajectory" \/ args.sort_out_anomalies # "yes") =>
    (fs = fs0 /\ MoveCalls = <<>>)

\* A directory run without the opt-in ended with a successfully analysed
\* anomalous cluster, its folder still in place.
C4_Witness ==
  /\ pc = "done"
  /\ DirectoryRun
  /\ args.sort_out_anomalies = "no"
  /\ \E i \in 1 .. Len(results) :
       /\ results[i].success
       /\ results[i].is_anomalous
       /\ fs.clusters[results[i].id.dir] = Tree(results[i].id.dir, "src")

\* C5: once the analysis loop of a directory run is over there is exactly
\* one result per coordinate file, in input order; a file that failed to
\* load or holds no Xe has success = false, and every failed result carries
\* a non-empty error message.
C5_ErrorsRecordedWithMessage ==
  (DirectoryRun /\ AnalysisOver) =>
    /\ Len(results) = Len(cluster_files)
    /\ Len(Reads) = Len(cluster_files)
    /\ \A i \in 1 .. Len(results) :
         /\ results[i].id = cluster_files[i]
         /\ Reads[i].file = cluster_files[i]
         /\ ~Reads[i].success => ~results[i].success
         /\ ~results[i].success =>
              (results[i].error # None /\ results[i].error[1] # "")

\* C5 without the message: one result per coordinate file in input order,
\* failures recorded with success = false and an error string (which may be
\* empty), never None.
C5_OneResultPerFile ==
  (DirectoryRun /\ AnalysisOver) =>
    /\ Len(results) = Len(cluster_files)
    /\ Len(Reads) = Len(cluster_files)
    /\ \A i \in 1 .. Len(results) :
         /\ results[i].id = cluster_files[i]
         /\ Reads[i].file = cluster_files[i]
         /\ ~Reads[i].success => ~results[i].success
         /\ ~results[i].success => results[i].error # None

\* The folder of this coordinate file was passed to move_anomalous_cluster
\* (by a call for this file or for another file of the same folder).
DirHandedToMover(f) ==
  \E k \in 1 .. Len(MoveCalls) : cluster_dir(MoveCalls[k].file) = cluster_dir(f)

\* C6: at the end of a quarantine run the source folder of every result
\* flagged is_anomalous (results with no Xe atoms and results that failed to
\* load or compute included) was handed to move_anomalous_cluster.
C6_EveryFlaggedHandedOver ==
  (QuarantineRun /\ pc = "done") =>
    \A i \in 1 .. Len(results) :
      results[i].is_anomalous => DirHandedToMover(results[i].id)

\* What the selection of main does instead: the mover is called for the file
\* of every result that is successful and flagged, and for no file of a
\* result with success = false, although each of those is flagged.
C6_SuccessfulFlaggedHandedOver ==
  (QuarantineRun /\ pc = "done") =>
    \A i \in 1 .. Len(results) :
      /\ (results[i].success /\ results[i].is_anomalous) => HandedToMover(results[i].id)
      /\ ~results[i].success => (results[i].is_anomalous /\ ~HandedToMover(results[i].id))

\* A quarantine run ended with one successful anomalous result handed over
\* and one failed (flagged) result whose folder no call was made for.
C6_FlaggedNotHandedOver ==
  /\ QuarantineRun
  /\ pc = "done"
  /\ \E i, j \in 1 .. Len(results) :
       /\ results[i].success /\ results[i].is_anomalous
       /\ HandedToMover(results[i].id)
       /\ ~results[j].success /\ results[j].is_anomalous
       /\ ~DirHandedToMover(results[j].id)

\* C7: the move loop calls move_anomalous_cluster once per selected result,
\* in order, whatever the earlier calls returned; it stops only after the
\* last one; each call returned a (success, message) pair; the warnings are
\* the messages of the failed calls; moved_count is the number of
\* successful calls.
C7_FailedMoveDoesNotBlock ==
  LET failed_calls == SelectSeq(MoveCalls, LAMBDA e : ~e.success)
  IN  /\ Len(MoveCalls) <= Len(anomalous_results)
      /\ \A k \in 1 .. Len(MoveCalls) :
           /\ MoveCalls[k].file = anomalous_results[k].id
           /\ MoveCalls[k].success \in BOOLEAN
           /\ MoveCalls[k].message =
                <<IF MoveCalls[k].success THEN "Moved" ELSE "Failed to move",
                  MoveCalls[k].file.dir>>
      /\ pc = "move" => Len(MoveCalls) < Len(anomalous_results)
      /\ pc = "done" => Len(MoveCalls) = Len(anomalous_results)
      /\ moved_count = Cardinality({k \in 1 .. Len(MoveCalls) : MoveCalls[k].success})
      /\ warnings = [k \in 1 .. Len(failed_calls) |-> failed_calls[k].message]

\* A run ended after a failed first move and a successful second one.
C7_Witness ==
  /\ pc = "done"
  /\ Len(MoveCalls) >= 2
  /\ ~MoveCalls[1].success
  /\ MoveCalls[2].success
  /\ moved_count = 1
  /\ Len(warnings) = 1

\* C8: right after a move_anomalous_cluster call that returned success, the
\* cluster folder is gone from its original path, bad_seeds exists and
\* bad_seeds/<folder name> holds exactly what the source folder held before
\* the call (nothing of a tree that was there before), and no other folder
\* changed.
C8_SuccessfulMove ==
  (events # <<>> /\ IsMove(events[Len(events)]) /\ events[Len(events)].success) =>
    LET e == events[Len(events)]
        d == e.file.dir
    IN  /\ e.before.clusters[d] # Absent
        /\ fs.clusters[d] = Absent
        /\ fs.bad_seeds_dir
        /\ fs.bad_seeds[d] = e.before.clusters[d]
        /\ \A o \in ClusterDirs \ {d} :
             /\ fs.clusters[o] = e.before.clusters[o]
             /\ fs.bad_seeds[o] = e.before.bad_seeds[o]

\* A successful move onto a destination that held a tree of an earlier run.
C8_Witness ==
  /\ events # <<>>
  /\ IsMove(events[Len(events)])
  /\ events[Len(events)].success
  /\ LET e == events[Len(events)]
     IN  /\ e.before.bad_seeds[e.file.dir] = Tree(e.file.dir, "old")
         /\ fs.bad_seeds[e.file.dir] = Tree(e.file.dir, "src")
         /\ fs.clusters[e.file.dir] = Absent

\* C9: in the printed summary total = successes + failures; with no
\* successful structure the quality section is omitted; otherwise good and
\* anomalous are counted over successful structures only, add up to their
\* number, and the two printed percentages add up to 100.0 within the
\* rounding of the print (each is rounded to a tenth, so by one tenth at most).
C9_ReportPartition ==
  report # None =>
    LET rep == report[1]
        succ == {i \in 1 .. Len(results) : results[i].success}
    IN  /\ rep.total = Len(results)
        /\ rep.successful = Cardinality(succ)
        /\ rep.total = rep.successful + rep.failed
        /\ succ = {} => rep.quality = None
        /\ succ # {} =>
             /\ rep.quality # None
             /\ rep.quality[1].good =
                  Cardinality({i \in succ : ~results[i].is_anomalous})
             /\ rep.quality[1].anomalous =
                  Cardinality({i \in succ : results[i].is_anomalous})
             /\ rep.quality[1].good + rep.quality[1].anomalous = rep.successful
             /\ rep.quality[1].good_pct + rep.quality[1].anomalous_pct
                  \in 999 .. 1001

\* A summary over at least one failed, one good and one anomalous structure.
C9_Witness ==
  /\ report # None
  /\ report[1].failed >= 1
  /\ report[1].quality # None
  /\ report[1].quality[1].good >= 1
  /\ report[1].quality[1].anomalous >= 1

\* C10: no structure is read after a move call; as soon as a move was
\* called or a directory differs from what the run found, every coordinate
\* file has been read and analysed; the move calls follow result order.
C10_MovesAfterAnalysis ==
  /\ \A i, j \in 1 .. Len(events) :
       (i < j /\ IsMove(events[i])) => ~IsRead(events[j])
  /\ (fs # fs0 \/ MoveCalls # <<>>) =>
       /\ pc \in {"move", "done"}
       /\ Len(results) = Len(cluster_files)
       /\ Len(Reads) = Len(cluster_files)
       /\ \A k, l \in 1 .. Len(MoveCalls) :
            k < l => ResultIndex(MoveCalls[k].file) < ResultIndex(MoveCalls[l].file)

\* A quarantine run over at least two files ended after two move calls, the
\* first of which moved its folder.
C10_Witness ==
  /\ pc = "done"
  /\ Len(Reads) >= 2
  /\ Len(MoveCalls) >= 2
  /\ MoveCalls[1].success
  /\ fs # fs0

\* ------------------------------------------------- shape of a result (C11)
WellFormed(r) ==
  /\ r.success =>
       /\ r.n_xe >= 1
       /\ Len(r.xe_neighbors) = r.n_xe
       /\ r.error = None
       /\ \A k \in 1 .. Len(r.xe_neighbors) : r.xe_neighbors[k] \in 0 .. (r.n_atoms - 1)
  /\ ~r.success =>
       /\ r.n_xe = 0
       /\ r.xe_neighbors = <<>>
       /\ r.error # None
       /\ r.is_anomalous

\* C11: every result of a run is well formed (success: n_xe >= 1, one count
\* per Xe atom, each in 0 .. n_atoms-1, error None; failure: n_xe = 0, no
\* counts, an error, flagged anomalous); and whenever the summary saw a
\* successful result its flattened neighbor-count list is non-empty, holds
\* at least one count per successful structure, and the printed min and max
\* are counts of successful results.
C11_ResultsWellFormed ==
  /\ \A i \in 1 .. Len(results) : WellFormed(results[i])
  /\ report # None =>
       LET rep == report[1]
           succ == {i \in 1 .. Len(results) : results[i].success}
           counts == UNION {Range(results[i].xe_neighbors) : i \in succ}
       IN  /\ succ = {} => rep.coordination = None
           /\ succ # {} =>
                /\ rep.coordination # None
                /\ rep.coordination[1].n_xe >= Cardinality(succ)
                /\ rep.coordination[1].min \in counts
                /\ rep.coordination[1].max \in counts
                /\ \A c \in counts :
                     rep.coordination[1].min <= c /\ c <= rep.coordination[1].max

\* C11 on the functions alone: whatever analyze_cluster / analyze_snapshot
\* returns, for every structure, radius and minimum, is well formed.
C11_ReturnedWellFormed == ret # None => WellFormed(Returned)

\* A summary over a failed result and two successful ones whose counts differ.
C11_Witness ==
  /\ report # None
  /\ report[1].failed >= 1
  /\ report[1].successful >= 2
  /\ report[1].coordination # None
  /\ report[1].coordination[1].min < report[1].coordination[1].max

\* --------------------------------------------- no cluster folder lost (C12)
\* Folders of the results selected for quarantine.
SelectedDirs == {anomalous_results[k].id.dir : k \in 1 .. Len(anomalous_results)}
\* The complete contents of cluster folder d are at this place.
HoldsContents(place, d) == place = Tree(d, "src")

\* C12: when a quarantine run has finished its move loop, the contents of
\* every cluster folder selected for quarantine are at exactly one of the
\* original path and bad_seeds/<folder name>, never at neither, and every
\* cluster folder not selected is at its original path as the run found it.
C12_NoFolderLost ==
  (QuarantineRun /\ pc = "done") =>
    \A d \in ClusterDirs :
      fs0.clusters[d] # Absent =>
        IF d \in SelectedDirs
        THEN HoldsContents(fs.clusters[d], d) # HoldsContents(fs.bad_seeds[d], d)
        ELSE fs.clusters[d] = fs0.clusters[d]

\* C12 for the layout the input format promises (one matching coordinate
\* file per cluster folder): there the contents of a selected folder are
\* never at neither path, under every fault; they are at both paths after a
\* move whose copy succeeded and whose removal of the source failed at once.
C12_NeverAtNeitherOneFilePerFolder ==
  (/\ \A f, g \in disk_files : f.dir = g.dir => f = g
   /\ QuarantineRun /\ pc = "done") =>
    \A d \in ClusterDirs :
      fs0.clusters[d] # Absent =>
        IF d \in SelectedDirs
        THEN HoldsContents(fs.clusters[d], d) \/ HoldsContents(fs.bad_seeds[d], d)
        ELSE fs.clusters[d] = fs0.clusters[d]

\* A finished quarantine run with one file per folder that left the contents
\* of a selected folder at both paths.
C12_BothPathsOneFilePerFolder ==
  /\ \A f, g \in disk_files : f.dir = g.dir => f = g
  /\ QuarantineRun /\ pc = "done"
  /\ \E d \in SelectedDirs :
       HoldsContents(fs.clusters[d], d) /\ HoldsContents(fs.bad_seeds[d], d)

====
